---- MODULE Spec2Model ----
(***************************************************************************)
(* firebird-mcp: a server exposing a Firebird database's catalog and query *)
(* surface (list_tables, describe_table, execute_query, table resources).  *)
(* The model covers src/firebird-mcp.py: the module-level connection, the  *)
(* three tools, the table:// resources and main()'s startup sequence.  The *)
(* database engine is the environment: its system catalog is state, and    *)
(* the catalog queries are computed over it as the SQL text computes them. *)
(***************************************************************************)
EXTENDS Integers, Sequences, FiniteSets, TLC

VARIABLES
    pc,          \* position of main(): start, connect, register, serving, exited
    exit_code,   \* -1 while the process is alive, else the process exit status
    con,         \* the module global _con: "None" or a connection handle
    tables,      \* main()'s local `tables` (line 232): <<"unset">> until list_tables returned
    resources,   \* concrete resources registered in the loop of main(): [uri, t] pairs
    warned,      \* the warning of line 239 was logged
    db,          \* the engine's system catalog (RDB$ tables)
    ddl_count,   \* number of DDL statements the engine has applied so far
    last         \* the most recent call and what it produced

vars == <<pc, exit_code, con, tables, resources, warned, db, ddl_count, last>>

-----------------------------------------------------------------------------
(* Bounds *)

\* a result set holds at most MaxRows rows; rowcount is at most MaxRows
MaxRows == 1
\* the engine applies at most MaxDDL DDL statements in one behaviour of the server
MaxDDL == 2
\* and at most MaxCatalogDDL in one behaviour of the catalog queries
MaxCatalogDDL == 3

-----------------------------------------------------------------------------
(* Names and their orderings.  TLC cannot order strings, so the collation  *)
(* of the few identifiers in use is tabulated (binary/ASCII order).        *)

NULL == "<NULL>"
None == "None"

\* user relation names: two unquoted (stored upper-case) and one quoted lower-case
Names == {"A", "B", "b"}
SysRelation == "RDB$RELATIONS"
\* names a caller may pass: stored names, a system relation, a name never stored
CallNames == Names \cup {SysRelation, "NO_SUCH_TABLE"}
FieldNames == {"ID", "X"}
IndexNames == {"I1", "I2"}
ConstraintTypes == {"FOREIGN KEY", "PRIMARY KEY"}

Collation == <<"A", "B", "FOREIGN KEY", "I1", "I2", "ID", "NO_SUCH_TABLE",
               "PRIMARY KEY", "RDB$RELATIONS", "RDB$RELATION_NAME", "X", "b">>

Rank(s) == CHOOSE k \in 1..Len(Collation) : Collation[k] = s

\* str.upper() on the identifiers in use
Upper(s) == IF s = "b" THEN "B" ELSE s

\* SQL MIN over a column: NULLs are ignored, all-NULL gives NULL
SqlMin(S) ==
    LET V == S \ {NULL}
    IN  IF V = {} THEN NULL
        ELSE CHOOSE v \in V : \A w \in V : Rank(v) <= Rank(w)

-----------------------------------------------------------------------------
(* The engine's catalog.  RDB$FIELDS (the domains) is fixed; the other     *)
(* catalog tables change with DDL.                                         *)

\* RDB$FIELDS: type code, length, precision, scale by domain (<<>> is NULL)
RdbFields ==
    [ D_INT |-> [ftype |-> 8,  flen |-> <<4>>,  fprec |-> <<0>>, fscale |-> <<0>>],
      D_VC  |-> [ftype |-> 37, flen |-> <<20>>, fprec |-> <<>>,  fscale |-> <<0>>],
      D_SYS |-> [ftype |-> 23, flen |-> <<>>,   fprec |-> <<>>,  fscale |-> <<>>] ]

\* the domain, not-null flag and default source a column of a given name gets
ColumnDef(f) ==
    IF f = "ID" THEN [source |-> "D_INT", null_flag |-> 1, dflt |-> NULL]
    ELSE [source |-> "D_VC", null_flag |-> 0, dflt |-> "DEFAULT 'x'"]

\* a database holding only the engine's own system relation
EmptyDb ==
    [ relations |-> {[name |-> SysRelation, view |-> FALSE, sys |-> 1]},
      relation_fields |-> {[rel |-> SysRelation, field |-> "RDB$RELATION_NAME", pos |-> 0,
                            sys |-> 1, source |-> "D_SYS", null_flag |-> 0, dflt |-> NULL]},
      indices |-> {},
      index_segments |-> {},
      relation_constraints |-> {} ]

\* column layouts: the fields of a relation in position order (position = index - 1)
Layouts ==
    { l \in UNION { [1..n -> FieldNames] : n \in 1..Cardinality(FieldNames) } :
        \A j, k \in DOMAIN l : j # k => l[j] # l[k] }

Stmt(kind, name, cols, index, segs, ctype) ==
    [kind |-> kind, name |-> name, cols |-> cols, index |-> index, segs |-> segs,
     ctype |-> ctype]

NoCols == <<>>

DDLStatements ==
    { Stmt(k, n, l, NULL, {}, NULL) : k \in {"CREATE TABLE", "CREATE VIEW"}, n \in Names,
                                      l \in Layouts }
    \cup { Stmt("DROP", n, NoCols, NULL, {}, NULL) : n \in Names }
    \cup { Stmt("CREATE INDEX", n, NoCols, i, {f}, c) :
             n \in Names, i \in IndexNames, f \in FieldNames,
             c \in ConstraintTypes \cup {NULL} }

Stored(d, n) == \E r \in d.relations : r.name = n

IsTable(d, n) == \E r \in d.relations : r.name = n /\ ~r.view /\ r.sys = 0

FieldsOf(d, n) == { r \in d.relation_fields : r.rel = n }

\* whether the engine accepts the DDL statement in catalog d
DDLValid(d, s) ==
    CASE s.kind \in {"CREATE TABLE", "CREATE VIEW"} -> ~Stored(d, s.name)
      [] s.kind = "DROP" -> Stored(d, s.name)
      [] s.kind = "CREATE INDEX" ->
            /\ IsTable(d, s.name)
            /\ \A f \in s.segs : \E r \in FieldsOf(d, s.name) : r.field = f
            /\ \A i \in d.indices : i.index # s.index
            /\ s.ctype = "PRIMARY KEY" =>
                   \A c \in d.relation_constraints :
                       ~(c.rel = s.name /\ c.ctype = "PRIMARY KEY")
      [] OTHER -> FALSE

\* the catalog after the engine has applied (and committed) the DDL statement
ApplyDDL(d, s) ==
    CASE s.kind \in {"CREATE TABLE", "CREATE VIEW"} ->
            [d EXCEPT
               !.relations = @ \cup {[name |-> s.name, view |-> (s.kind = "CREATE VIEW"),
                                      sys |-> 0]},
               !.relation_fields = @ \cup
                   { [rel |-> s.name, field |-> s.cols[k], pos |-> k - 1, sys |-> 0,
                      source |-> ColumnDef(s.cols[k]).source,
                      null_flag |-> ColumnDef(s.cols[k]).null_flag,
                      dflt |-> ColumnDef(s.cols[k]).dflt] : k \in DOMAIN s.cols }]
      [] s.kind = "DROP" ->
            LET gone == { i.index : i \in { j \in d.indices : j.rel = s.name } }
            IN  [d EXCEPT
                   !.relations = { r \in @ : r.name # s.name },
                   !.relation_fields = { r \in @ : r.rel # s.name },
                   !.indices = { i \in @ : i.rel # s.name },
                   !.index_segments = { g \in @ : g.index \notin gone },
                   !.relation_constraints = { c \in @ : c.rel # s.name }]
      [] s.kind = "CREATE INDEX" ->
            [d EXCEPT
               !.indices = @ \cup {[index |-> s.index, rel |-> s.name]},
               !.index_segments = @ \cup {[index |-> s.index, field |-> f] : f \in s.segs},
               !.relation_constraints =
                   IF s.ctype = NULL THEN @
                   ELSE @ \cup {[ctype |-> s.ctype, rel |-> s.name, index |-> s.index]}]
      [] OTHER -> d

-----------------------------------------------------------------------------
(* list_tables: the query of lines 58-64 and the comprehension of line 65. *)

RECURSIVE SortByName(_)
\* ORDER BY 1 over a set of names
SortByName(S) ==
    IF S = {} THEN <<>>
    ELSE LET m == CHOOSE x \in S : \A y \in S : Rank(x) <= Rank(y)
         IN  <<m>> \o SortByName(S \ {m})

ListTablesQuery(d) ==
    SortByName({ r.name : r \in { q \in d.relations : ~q.view /\ q.sys = 0 } })

-----------------------------------------------------------------------------
(* describe_table: the query of lines 76-114 and the mapping of 116-129.   *)

\* the CASE of lines 78-94
TypeName(code) ==
    CASE code = 261 -> "BLOB"
      [] code = 14  -> "CHAR"
      [] code = 40  -> "CSTRING"
      [] code = 11  -> "D_FLOAT"
      [] code = 27  -> "DOUBLE"
      [] code = 10  -> "FLOAT"
      [] code = 16  -> "INT64"
      [] code = 8   -> "INTEGER"
      [] code = 9   -> "QUAD"
      [] code = 7   -> "SMALLINT"
      [] code = 12  -> "DATE"
      [] code = 13  -> "TIME"
      [] code = 35  -> "TIMESTAMP"
      [] code = 37  -> "VARCHAR"
      [] OTHER      -> "UNKNOWN"

\* the join without the system_flag test of line 110
JoinRowsAnyFlag(d, name) ==
    LET R == { r \in d.relation_fields : r.rel = name }
        SegsOf(r) == { g \in d.index_segments : g.field = r.field }
        IdxOf(r, g) == { i \in d.indices : i.index = g.index /\ i.rel = r.rel }
        ConOf(r, g) == { c \in d.relation_constraints :
                           /\ c.index = g.index
                           /\ \E i \in IdxOf(r, g) : c.index = i.index /\ c.rel = i.rel }
        Row(r, s, i, rc) == [r |-> r, s |-> s, i |-> i, rc |-> rc]
    IN  UNION { IF SegsOf(r) = {} THEN { Row(r, NULL, NULL, NULL) }
                ELSE UNION { IF IdxOf(r, g) = {} THEN { Row(r, g.index, NULL, NULL) }
                             ELSE IF ConOf(r, g) = {}
                                  THEN { Row(r, g.index, g.index, NULL) }
                                  ELSE { Row(r, g.index, g.index, c.ctype) :
                                           c \in ConOf(r, g) }
                             : g \in SegsOf(r) }
                : r \in R }

\* FROM ... LEFT JOIN ... WHERE of lines 102-111: one record per joined row.
\* s, i and rc are the joined index segment's index name, the joined index's
\* name and the joined constraint's type, NULL where the left join found none.
JoinRows(d, name) ==
    LET R == { r \in d.relation_fields : r.sys = 0 /\ r.rel = name }
        SegsOf(r) == { g \in d.index_segments : g.field = r.field }
        IdxOf(r, g) == { i \in d.indices : i.index = g.index /\ i.rel = r.rel }
        ConOf(r, g) == { c \in d.relation_constraints :
                           /\ c.index = g.index
                           /\ \E i \in IdxOf(r, g) : c.index = i.index /\ c.rel = i.rel }
        Row(r, s, i, rc) == [r |-> r, s |-> s, i |-> i, rc |-> rc]
    IN  UNION { IF SegsOf(r) = {} THEN { Row(r, NULL, NULL, NULL) }
                ELSE UNION { IF IdxOf(r, g) = {} THEN { Row(r, g.index, NULL, NULL) }
                             ELSE IF ConOf(r, g) = {}
                                  THEN { Row(r, g.index, g.index, NULL) }
                                  ELSE { Row(r, g.index, g.index, c.ctype) :
                                           c \in ConOf(r, g) }
                             : g \in SegsOf(r) }
                : r \in R }

\* the select list of lines 77-101 for one group of joined rows
SelectRow(G) ==
    LET r == (CHOOSE j \in G : TRUE).r
        f == RdbFields[r.source]
    IN  [ field_name |-> r.field,
          field_type |-> TypeName(f.ftype),
          field_length |-> f.flen,
          field_precision |-> f.fprec,
          field_scale |-> f.fscale,
          constraint_type |-> SqlMin({ j.rc : j \in G }),
          index_name |-> SqlMin({ j.i : j \in G }),
          nullable |-> IF r.null_flag = 1 THEN 0 ELSE 1,
          dflt_value |-> r.dflt,
          pos |-> r.pos ]

\* the query without its GROUP BY: every joined row is a row of the result
NoGroupBy(J) == { {j} : j \in J }

\* GROUP BY of line 112: the joined rows that agree on the grouping columns
GroupBy(J) ==
    LET Key(j) == << j.r.field, RdbFields[j.r.source], j.r.null_flag, j.r.dflt, j.r.pos >>
    IN  { { k \in J : Key(k) = Key(j) } : j \in J }

RECURSIVE SortByPos(_)
\* ORDER BY r.RDB$FIELD_POSITION of line 113
SortByPos(S) ==
    IF S = {} THEN <<>>
    ELSE LET m == CHOOSE x \in S : \A y \in S : x.pos <= y.pos
         IN  <<m>> \o SortByPos(S \ {m})

DescribeQuery(d, name) ==
    SortByPos({ SelectRow(G) : G \in GroupBy(JoinRows(d, name)) })

\* ColInfo(...) of lines 118-128; <<>> is None for the optional integers
ColInfo(row) ==
    [ name |-> row.field_name,
      data_type |-> row.field_type,
      length |-> IF row.field_length = <<>> THEN 0 ELSE row.field_length[1],
      precision |-> row.field_precision,
      scale |-> row.field_scale,
      constraint_type |-> IF row.constraint_type \notin {NULL, ""}
                          THEN row.constraint_type ELSE None,
      constraint_name |-> IF row.index_name \notin {NULL, ""}
                          THEN row.index_name ELSE None,
      nullable |-> row.nullable # 0,
      default_value |-> IF row.dflt_value \notin {NULL, ""}
                         THEN row.dflt_value ELSE None ]

\* the rows describe_table returns for table_name on catalog d
DescribeTableRows(d, table_name) ==
    LET rows == DescribeQuery(d, Upper(table_name))
    IN  [ k \in 1..Len(rows) |-> ColInfo(rows[k]) ]

-----------------------------------------------------------------------------
(* The driver as execute_query sees it.                                    *)

\* the Connection object connect("db") returns
Connection == "db"
NoStmt == Stmt("NONE", NULL, NoCols, NULL, {}, NULL)

\* result-set descriptions (column names as the driver reports them); <<>> is
\* "no described result set"
Descriptions == { <<"C1">>, <<"C1", "C2">>, <<"C1", "C1">> }

QueryStatements ==
    { Stmt("SELECT", NULL, c, NULL, {}, NULL) : c \in Descriptions }
    \cup { Stmt("UPDATE", NULL, NoCols, NULL, {}, NULL),
           Stmt("BAD SQL", NULL, NoCols, NULL, {}, NULL) }

\* cur.description after cur.execute(sql)
DescriptionOf(sql) == IF sql.kind = "SELECT" THEN sql.cols ELSE <<>>

\* the k-th row of a result set with the given description
RowOf(desc, k) == [ j \in 1..Len(desc) |-> 10 * k + j ]

\* where the driver may raise while the statement runs: the engine rejects the
\* statement at execute, or the connection faults at any driver call made
Faults(d, sql) ==
    IF sql.kind = "BAD SQL" \/ (sql \in DDLStatements /\ ~DDLValid(d, sql))
    THEN {"execute"}
    ELSE IF DescriptionOf(sql) # <<>> THEN {"none", "execute", "fetch"}
         ELSE {"none", "execute", "commit"}

\* str(e) of the exception the driver raises
Message(fault) ==
    CASE fault = "execute" -> "error at execute"
      [] fault = "fetch"   -> "error at fetch"
      [] fault = "commit"  -> "error at commit"
      [] fault = "query"   -> "error in catalog query"
      [] OTHER             -> "none"

NotInitialized == "Database connection not initialized."

\* dict(zip(columns, row)) of line 143: a later duplicate column overwrites
ZipDict(columns, row) ==
    [ c \in { columns[j] : j \in 1..Len(columns) } |->
        row[CHOOSE j \in 1..Len(columns) :
              columns[j] = c /\ \A k \in 1..Len(columns) : columns[k] = c => k <= j] ]

-----------------------------------------------------------------------------
(* The record of the most recent call.                                     *)

Ops == {"list_tables", "describe_table", "execute_query", "read_resource"}

NoCall ==
    [ op |-> "none", arg |-> "", sql |-> NoStmt, outcome |-> "none", err |-> "none",
      kind |-> "none", result |-> <<>>, io |-> FALSE, commit |-> "none",
      con |-> None, fault |-> "none", rowcount |-> 0, bound |-> "" ]

Step(op) == [NoCall EXCEPT !.op = op]

\* get_connection opening a connection on demand instead of raising
GetConnectionLazy(c) == IF c = None THEN Connection ELSE c

\* get_connection, lines 45-50: the connection, or None where it raises
GetConnection(c) == c

\* a call that died in get_connection, before it used its argument
Uninitialized(op) ==
    [NoCall EXCEPT !.op = op, !.outcome = "raised", !.err = NotInitialized]

\* list_tables, lines 53-68
ListTables(c, d, fault) ==
    IF GetConnection(c) = None THEN Uninitialized("list_tables")
    ELSE IF fault # "none"
         THEN [NoCall EXCEPT !.op = "list_tables", !.outcome = "raised",
                             !.err = Message(fault), !.io = TRUE, !.fault = fault,
                             !.con = GetConnection(c)]
         ELSE [NoCall EXCEPT !.op = "list_tables", !.outcome = "returned",
                             !.kind = "names", !.result = ListTablesQuery(d),
                             !.io = TRUE, !.con = GetConnection(c)]

\* describe_table, lines 70-132
DescribeTable(c, d, table_name, fault) ==
    IF GetConnection(c) = None THEN Uninitialized("describe_table")
    ELSE IF fault # "none"
         THEN [NoCall EXCEPT !.op = "describe_table", !.arg = table_name,
                             !.outcome = "raised", !.err = Message(fault), !.io = TRUE,
                             !.fault = fault, !.con = GetConnection(c)]
         ELSE [NoCall EXCEPT !.op = "describe_table", !.arg = table_name,
                             !.outcome = "returned", !.kind = "cols",
                             !.result = DescribeTableRows(d, table_name),
                             !.io = TRUE, !.con = GetConnection(c)]

\* execute_query without the except clause of lines 147-149: a driver error
\* propagates as it does in list_tables
ExecuteQueryReraise(c, sql, fault, n) ==
    LET desc == DescriptionOf(sql)
        base == [NoCall EXCEPT !.op = "execute_query", !.sql = sql, !.fault = fault,
                               !.io = TRUE, !.con = c]
    IN  IF c = None THEN Uninitialized("execute_query")
        ELSE IF fault # "none"
             THEN [base EXCEPT !.outcome = "raised", !.err = Message(fault),
                               !.commit = IF fault = "commit" THEN "failed" ELSE "none"]
             ELSE IF desc # <<>>
                  THEN [base EXCEPT !.outcome = "returned", !.kind = "rows",
                                    !.result = [ k \in 1..n |-> ZipDict(desc, RowOf(desc, k)) ],
                                    !.rowcount = n]
                  ELSE [base EXCEPT !.outcome = "returned", !.kind = "status",
                                    !.commit = "ok", !.rowcount = n,
                                    !.result = << [status |-> "Success",
                                                   rows_affected |-> n] >>]

\* execute_query committing after every statement, result set or not
ExecuteQueryAlwaysCommit(c, sql, fault, n) ==
    LET desc == DescriptionOf(sql)
        base == [NoCall EXCEPT !.op = "execute_query", !.sql = sql, !.fault = fault,
                               !.io = TRUE, !.con = c]
        failed(commit) == [base EXCEPT !.outcome = "returned", !.kind = "error",
                                       !.result = << [error |-> Message(fault)] >>,
                                       !.err = Message(fault), !.commit = commit]
    IN  IF c = None THEN Uninitialized("execute_query")
        ELSE IF fault = "execute" THEN failed("none")
        ELSE IF fault = "fetch" THEN failed("none")
        ELSE IF fault = "commit" THEN failed("failed")
        ELSE IF desc # <<>>
             THEN [base EXCEPT !.outcome = "returned", !.kind = "rows", !.commit = "ok",
                               !.result = [ k \in 1..n |-> ZipDict(desc, RowOf(desc, k)) ],
                               !.rowcount = n]
             ELSE [base EXCEPT !.outcome = "returned", !.kind = "status",
                               !.commit = "ok", !.rowcount = n,
                               !.result = << [status |-> "Success",
                                              rows_affected |-> n] >>]

\* execute_query, lines 134-149.  n is the number of rows fetched or affected.
ExecuteQuery(c, sql, fault, n) ==
    LET desc == DescriptionOf(sql)
        base == [NoCall EXCEPT !.op = "execute_query", !.sql = sql, !.fault = fault,
                               !.io = TRUE, !.con = GetConnection(c)]
        failed(commit) == [base EXCEPT !.outcome = "returned", !.kind = "error",
                                       !.result = << [error |-> Message(fault)] >>,
                                       !.err = Message(fault), !.commit = commit]
    IN  IF GetConnection(c) = None THEN Uninitialized("execute_query")
        ELSE IF fault = "execute" THEN failed("none")
        ELSE IF desc # <<>>
             THEN IF fault = "fetch" THEN failed("none")
                  ELSE [base EXCEPT !.outcome = "returned", !.kind = "rows",
                                    !.result = [ k \in 1..n |-> ZipDict(desc, RowOf(desc, k)) ],
                                    !.rowcount = n]
             ELSE IF fault = "commit" THEN failed("failed")
                  ELSE [base EXCEPT !.outcome = "returned", !.kind = "status",
                                    !.commit = "ok", !.rowcount = n,
                                    !.result = << [status |-> "Success",
                                                   rows_affected |-> n] >>]

-----------------------------------------------------------------------------
(* Resources: the template of lines 151-154 and the per-table resources    *)
(* main() registers at lines 232-236.                                      *)

Uri(t) == "table://" \o t

\* the loop with a handler that reads the loop variable when it is called: every
\* handler describes the last table of the loop
RegisterResourcesLateBound(ts) ==
    { [uri |-> Uri(ts[k]), t |-> ts[Len(ts)]] : k \in 1..Len(ts) }

\* the loop stopping one table short
RegisterResourcesButLast(ts) ==
    { [uri |-> Uri(ts[k]), t |-> ts[k]] : k \in 1..(Len(ts) - 1) }

\* the loop of lines 233-236: one resource per listed table, its handler
\* make_handler(table) closing over that table's name
RegisterResources(ts) ==
    { [uri |-> Uri(ts[k]), t |-> ts[k]] : k \in 1..Len(ts) }

\* the table name the handler serving table://n calls describe_table with: the
\* name bound by the registered resource, else the template's {table_name}
HandlerName(res, n) ==
    IF \E r \in res : r.uri = Uri(n)
    THEN (CHOOSE r \in res : r.uri = Uri(n)).t
    ELSE n

\* reading table://n: lambda: describe_table(t), or get_table_schema(n)
ReadResource(res, c, d, n, fault) ==
    [DescribeTable(c, d, HandlerName(res, n), fault) EXCEPT
        !.op = "read_resource", !.arg = n, !.bound = HandlerName(res, n)]

-----------------------------------------------------------------------------
(* main(), lines 156-246.                                                  *)

Unset == <<"unset">>

Init ==
    /\ pc = "start"
    /\ exit_code = -1
    /\ con = None
    /\ tables = Unset
    /\ resources = {}
    /\ warned = FALSE
    /\ db = EmptyDb
    /\ ddl_count = 0
    /\ last = NoCall

\* sys.exit(1), lines 206 and 229
Exit1 ==
    /\ pc' = "exited"
    /\ exit_code' = 1

\* lines 202-206: the database path is given, or the process exits with 1
ParseArgs ==
    /\ pc = "start"
    /\ \E fb_database \in {"", "/data/db.fdb"} :
          IF fb_database = ""
          THEN Exit1
          ELSE pc' = "connect" /\ exit_code' = exit_code
    /\ last' = Step("main")
    /\ UNCHANGED <<con, tables, resources, warned, db, ddl_count>>

\* connect without the sys.exit(1) of line 229: a failed connect is logged and
\* main() goes on
ConnectNoExit ==
    /\ pc = "connect"
    /\ \/ con' = Connection
       \/ con' = con
    /\ pc' = "register"
    /\ exit_code' = exit_code
    /\ last' = Step("main")
    /\ UNCHANGED <<tables, resources, warned, db, ddl_count>>

\* lines 224-229: connect succeeds and _con is set, or the process exits with 1
Connect ==
    /\ pc = "connect"
    /\ \/ /\ con' = Connection
          /\ pc' = "register"
          /\ exit_code' = exit_code
       \/ /\ Exit1
          /\ con' = con
    /\ last' = Step("main")
    /\ UNCHANGED <<tables, resources, warned, db, ddl_count>>

\* registration without the try/except of lines 231-239: a failing list_tables
\* ends the process
RegisterTableResourcesNoExcept ==
    /\ pc = "register"
    /\ \E fault \in {"none", "query"} :
          LET listed == ListTables(con, db, fault)
          IN  IF listed.outcome = "returned"
              THEN /\ tables' = listed.result
                   /\ resources' = RegisterResources(listed.result)
                   /\ pc' = "serving"
                   /\ exit_code' = exit_code
              ELSE /\ tables' = tables
                   /\ resources' = resources
                   /\ Exit1
    /\ warned' = warned
    /\ last' = Step("main")
    /\ UNCHANGED <<con, db, ddl_count>>

\* lines 231-239, then mcp.run of lines 241-246
RegisterTableResources ==
    /\ pc = "register"
    /\ \E fault \in {"none", "query"} :
          LET listed == ListTables(con, db, fault)
          IN  IF listed.outcome = "returned"
              THEN /\ tables' = listed.result
                   /\ resources' = RegisterResources(listed.result)
                   /\ warned' = warned
              ELSE /\ tables' = tables
                   /\ resources' = resources
                   /\ warned' = TRUE
    /\ pc' = "serving"
    /\ last' = Step("main")
    /\ UNCHANGED <<exit_code, con, db, ddl_count>>

\* the transport closes, mcp.run returns and main() ends
Stop ==
    /\ pc = "serving"
    /\ pc' = "exited"
    /\ exit_code' = 0
    /\ last' = Step("main")
    /\ UNCHANGED <<con, tables, resources, warned, db, ddl_count>>

-----------------------------------------------------------------------------
(* Calls.  mcp.run dispatches them while serving; before main() runs the   *)
(* module's functions can be called directly by whoever imported it.       *)

Callable == pc \in {"start", "serving"}

server == <<pc, exit_code, con, tables, resources, warned>>

ListTablesCall ==
    /\ Callable
    /\ \E fault \in {"none", "query"} : last' = ListTables(con, db, fault)
    /\ UNCHANGED <<server, db, ddl_count>>

DescribeTableCall ==
    /\ Callable
    /\ \E n \in CallNames, fault \in {"none", "query"} :
          last' = DescribeTable(con, db, n, fault)
    /\ UNCHANGED <<server, db, ddl_count>>

ReadResourceCall ==
    /\ Callable
    /\ \E n \in CallNames, fault \in {"none", "query"} :
          last' = ReadResource(resources, con, db, n, fault)
    /\ UNCHANGED <<server, db, ddl_count>>

\* cur.rowcount / the number of rows fetched
RowCounts(sql, fault) ==
    IF fault # "none" THEN {0}
    ELSE IF sql \in DDLStatements THEN {-1}
    ELSE 0..MaxRows

\* execute_query(sql) with sql a query or one of the DDL statements in D
ExecuteQueryCall(D, max) ==
    /\ Callable
    /\ \E sql \in D \cup QueryStatements :
          /\ sql \in DDLStatements => ddl_count < max
          /\ \E fault \in Faults(db, sql) : \E n \in RowCounts(sql, fault) :
                /\ last' = ExecuteQuery(con, sql, fault, n)
                /\ IF sql \in DDLStatements /\ last'.commit = "ok"
                   THEN db' = ApplyDDL(db, sql) /\ ddl_count' = ddl_count + 1
                   ELSE UNCHANGED <<db, ddl_count>>
    /\ UNCHANGED server

\* another client of the engine changes the catalog
ExternalDDL(D, max) ==
    /\ pc # "exited"
    /\ ddl_count < max
    /\ \E s \in D :
          /\ DDLValid(db, s)
          /\ db' = ApplyDDL(db, s)
    /\ ddl_count' = ddl_count + 1
    /\ last' = Step("ddl")
    /\ UNCHANGED server

\* the DDL run against the served database: tables and views of two layouts
TableDDL ==
    { s \in DDLStatements :
        /\ s.kind # "CREATE INDEX"
        /\ s.kind # "DROP" => s.cols \in { <<"ID">>, <<"X", "ID">> } }

Next ==
    \/ ParseArgs
    \/ Connect
    \/ RegisterTableResources
    \/ Stop
    \/ ListTablesCall
    \/ DescribeTableCall
    \/ ReadResourceCall
    \/ ExecuteQueryCall(TableDDL, MaxDDL)
    \/ ExternalDDL(TableDDL, MaxDDL)

Spec == Init /\ [][Next]_vars

\* the serving process on an initially empty database, for the catalog queries
InitCatalog ==
    /\ pc = "serving"
    /\ exit_code = -1
    /\ con = Connection
    /\ tables = <<>>
    /\ resources = {}
    /\ warned = FALSE
    /\ db = EmptyDb
    /\ ddl_count = 0
    /\ last = NoCall

NextCatalog ==
    \/ ListTablesCall
    \/ DescribeTableCall
    \/ ExternalDDL(DDLStatements, MaxCatalogDDL)

SpecCatalog == InitCatalog /\ [][NextCatalog]_vars

-----------------------------------------------------------------------------
(* Properties                                                              *)

Registered(n) == \E r \in resources : r.uri = Uri(n)

Range(f) == { f[k] : k \in DOMAIN f }

\* C1: an execute_query call whose statement fails at execute, at fetch or at
\* commit does not raise: it returns a one-element sequence holding a record
\* with the driver's error message, and neither rows nor a status record.
C1_FailureIsData ==
    (last.op = "execute_query" /\ last.fault # "none") =>
        /\ last.outcome = "returned"
        /\ last.kind = "error"
        /\ last.result = << [error |-> Message(last.fault)] >>

\* C1 witness: a statement that executed and then failed at commit came back as
\* an error record.
C1_Witness ==
    /\ last.op = "execute_query"
    /\ last.fault = "commit"
    /\ last.outcome = "returned"
    /\ last.kind = "error"

\* C2: a commit is attempted exactly when the statement executed and the driver
\* reports no described result set; a statement that ran through without a
\* description was committed and yields one status record with the affected-row
\* count; one with a description yields its rows as column-name-to-value
\* mappings and no commit.
C2_CommitIffNoDescription ==
    (last.op = "execute_query" /\ last.outcome = "returned") =>
        LET desc == DescriptionOf(last.sql)
        IN  /\ (last.commit # "none") <=> (last.fault # "execute" /\ desc = <<>>)
            /\ (last.fault = "none" /\ desc = <<>>) =>
                   /\ last.commit = "ok"
                   /\ last.kind = "status"
                   /\ last.result = << [status |-> "Success",
                                        rows_affected |-> last.rowcount] >>
            /\ (last.fault = "none" /\ desc # <<>>) =>
                   /\ last.commit = "none"
                   /\ last.kind = "rows"
                   /\ Len(last.result) = last.rowcount
                   /\ \A k \in 1..Len(last.result) :
                         /\ DOMAIN last.result[k] = Range(desc)
                         /\ \A j \in 1..Len(desc) :
                               (\A i \in (j + 1)..Len(desc) : desc[i] # desc[j]) =>
                                   last.result[k][desc[j]] = RowOf(desc, k)[j]

\* C2 witness: an UPDATE that affected no row was committed and reported.
C2_Witness ==
    /\ last.op = "execute_query"
    /\ last.sql.kind = "UPDATE"
    /\ last.kind = "status"
    /\ last.commit = "ok"
    /\ last.rowcount = 0

\* C3: while _con is None every operation raises get_connection's
\* not-initialized error before any database I/O and changes nothing; once
\* connect has succeeded every operation works on that one connection, which is
\* never replaced.
C3_FailFast ==
    /\ [](last.op \in Ops =>
            IF con = None
            THEN /\ last.outcome = "raised"
                 /\ last.err = NotInitialized
                 /\ ~last.io
                 /\ last.commit = "none"
            ELSE /\ last.err # NotInitialized
                 /\ last.con = con)
    /\ [][ /\ (con = None /\ last'.op \in Ops) =>
                UNCHANGED <<pc, exit_code, con, tables, resources, warned, db, ddl_count>>
           /\ con # None => con' = con ]_vars

\* C3 witness: execute_query was called before connect and raised.
C3_Witness ==
    /\ con = None
    /\ last.op = "execute_query"
    /\ last.outcome = "raised"
    /\ last.err = NotInitialized

\* the stored position of a column of a relation
PosOf(d, rel, field) ==
    (CHOOSE r \in d.relation_fields : r.rel = rel /\ r.field = field).pos

\* C4: for a name that (upper-cased, as describe_table does) names a user table
\* with N stored columns, describe_table returns exactly N descriptors, one per
\* column, in ascending field position, however many index-segment, index and
\* constraint rows the joins match.
C4_OneDescriptorPerColumn ==
    (/\ last.op = "describe_table"
     /\ last.outcome = "returned"
     /\ IsTable(db, Upper(last.arg))) =>
        LET rel == Upper(last.arg)
            res == last.result
        IN  /\ Len(res) = Cardinality(FieldsOf(db, rel))
            /\ { res[k].name : k \in 1..Len(res) } = { r.field : r \in FieldsOf(db, rel) }
            /\ \A k \in 1..(Len(res) - 1) :
                   PosOf(db, rel, res[k].name) < PosOf(db, rel, res[k + 1].name)

\* C4 witness: a table of two columns was described while the joins matched more
\* rows than it has columns.
C4_Witness ==
    /\ last.op = "describe_table"
    /\ last.outcome = "returned"
    /\ IsTable(db, Upper(last.arg))
    /\ Len(last.result) = 2
    /\ Cardinality(JoinRows(db, Upper(last.arg))) > 2

\* C5 as stated: describe_table yields descriptors only for relations that
\* list_tables lists, so none for a view.
C5_OnlyListedRelations ==
    (/\ last.op = "describe_table"
     /\ last.outcome = "returned"
     /\ last.result # <<>>) =>
        Upper(last.arg) \in Range(ListTablesQuery(db))

\* C5 amended: describe_table raises no error of its own and returns an empty
\* sequence for a name under which (upper-cased) nothing is stored and for a
\* system-flagged relation; for a user table and for a view alike it returns one
\* descriptor per column.
C5_EmptyForAbsentOrSystem ==
    (last.op = "describe_table" /\ last.fault = "none") =>
        LET rel == Upper(last.arg)
            user == \E r \in db.relations : r.name = rel /\ r.sys = 0
        IN  /\ last.outcome = "returned"
            /\ ~user => last.result = <<>>
            /\ user => Len(last.result) = Cardinality(FieldsOf(db, rel))

\* C5 witness: a view was described and its columns came back.
C5_Witness ==
    /\ last.op = "describe_table"
    /\ last.outcome = "returned"
    /\ \E r \in db.relations : r.name = Upper(last.arg) /\ r.view
    /\ last.result # <<>>

\* C10: in every descriptor constraint_name is set exactly when constraint_type
\* is, and then names the index of a constraint of the reported type that
\* covers the column.
C10_NameBacksType ==
    (last.op = "describe_table" /\ last.outcome = "returned") =>
        \A k \in 1..Len(last.result) :
            LET c == last.result[k]
            IN  /\ (c.constraint_name # None) <=> (c.constraint_type # None)
                /\ c.constraint_type # None =>
                       \E rc \in db.relation_constraints :
                           /\ rc.rel = Upper(last.arg)
                           /\ rc.index = c.constraint_name
                           /\ rc.ctype = c.constraint_type
                           /\ [index |-> rc.index, field |-> c.name] \in db.index_segments

Started == pc \in {"serving", "exited"} /\ exit_code # 1

\* C6 as stated: the registered table resources are the startup snapshot, and a
\* table that exists now but was not registered at startup cannot be read as a
\* table resource.
C6_UnregisteredNotAddressable ==
    /\ (Started /\ ~warned) =>
           { r.uri : r \in resources } = { Uri(t) : t \in Range(tables) }
    /\ (/\ last.op = "read_resource"
        /\ con # None
        /\ IsTable(db, last.arg)
        /\ ~Registered(last.arg)) =>
           (last.outcome # "returned" \/ last.result = <<>>)

\* C6 amended: after a startup that listed the tables S exactly one resource
\* table://t is registered for each t in S and no other, and the registered set
\* never changes afterwards: a table created later gets no resource of its own
\* (reading table://t for it is served by the table://{table_name} template,
\* which describes t), and a dropped table keeps its resource.
C6_Snapshot ==
    /\ [](/\ (Started /\ ~warned) =>
                /\ { r.uri : r \in resources } = { Uri(t) : t \in Range(tables) }
                /\ Cardinality(resources) = Len(tables)
          /\ ~Started => resources = {}
          /\ (last.op = "read_resource" /\ con # None /\ ~Registered(last.arg)) =>
                last.bound = last.arg)
    /\ [][ /\ (pc = "register" /\ pc' = "serving" /\ ~warned') =>
                Range(tables') = { n \in Names : IsTable(db, n) }
           /\ pc # "register" => (resources' = resources /\ tables' = tables) ]_vars

\* C6 witness: a table created after startup has no registered resource, and
\* reading table://t for it returned its columns.
C6_Witness ==
    /\ pc = "serving"
    /\ ~warned
    /\ last.op = "read_resource"
    /\ last.outcome = "returned"
    /\ IsTable(db, last.arg)
    /\ last.arg \notin Range(tables)
    /\ ~Registered(last.arg)
    /\ last.result # <<>>

\* the descriptors of the relation stored under exactly this name
SchemaOf(d, n) ==
    LET rows == DescribeQuery(d, n)
    IN  [ k \in 1..Len(rows) |-> ColInfo(rows[k]) ]

\* C7 as stated: reading the resource registered for t calls describe_table
\* with t, and what it returns is the present schema of the relation t: empty
\* once t is dropped.
C7_ContentIsTableT ==
    (/\ last.op = "read_resource"
     /\ last.outcome = "returned"
     /\ Registered(last.arg)) =>
        /\ last.bound = last.arg
        /\ last.result = SchemaOf(db, last.arg)

\* C7 amended: reading the resource registered for t calls describe_table
\* afresh with exactly t, so it returns what describe_table(t) returns on the
\* catalog as it is at the request: the schema of the relation stored under t
\* upper-cased, and an empty sequence when nothing is stored under that name.
C7_FreshDescribeOfBoundName ==
    (/\ last.op = "read_resource"
     /\ last.outcome = "returned"
     /\ Registered(last.arg)) =>
        /\ last.bound = last.arg
        /\ last.result = DescribeTableRows(db, last.arg)
        /\ last.result = SchemaOf(db, Upper(last.arg))
        /\ ~Stored(db, Upper(last.arg)) => last.result = <<>>

\* C7 witness: a table registered at startup was dropped, and reading its
\* resource returned the empty sequence.
C7_Witness ==
    /\ pc = "serving"
    /\ last.op = "read_resource"
    /\ last.outcome = "returned"
    /\ Registered(last.arg)
    /\ last.arg \in Range(tables)
    /\ ~Stored(db, last.arg)
    /\ last.result = <<>>

\* C8: with no table listed nothing is registered and no warning is logged; when
\* list_tables fails at startup nothing is registered, the warning is logged,
\* and the process serves all the same: registration always ends in Serving,
\* where list_tables, describe_table and execute_query answer.
C8_RegistrationTolerant ==
    /\ [](/\ warned => (resources = {} /\ tables = Unset /\ Started /\ con # None)
          /\ (Started /\ tables = <<>>) => (resources = {} /\ ~warned)
          /\ (/\ pc = "serving"
              /\ last.op \in {"list_tables", "describe_table", "execute_query"}) =>
                 /\ last.err # NotInitialized
                 /\ last.fault = "none" => last.outcome = "returned")
    /\ [][ (pc = "register" /\ pc' # pc) =>
             /\ pc' = "serving"
             /\ exit_code' = -1
             /\ warned' <=> tables' = Unset ]_vars

\* C8 witness: list_tables failed at startup, and list_tables then answered a
\* request.
C8_Witness ==
    /\ warned
    /\ pc = "serving"
    /\ resources = {}
    /\ last.op = "list_tables"
    /\ last.outcome = "returned"

\* C9: main() moves start -> connect -> register -> serving -> exited; serving
\* is entered only from registration with the connection set; resources are
\* registered only in that one step; a missing database path or a failed
\* connect ends the process with exit code 1 from before registration, with
\* nothing registered; and no operation gets past get_connection except while
\* serving.
C9_Lifecycle ==
    /\ [](/\ pc = "serving" => con # None
          /\ pc = "register" => con # None
          /\ (pc = "exited") <=> (exit_code # -1)
          /\ exit_code = 1 => (resources = {} /\ tables = Unset /\ ~warned)
          /\ pc \in {"start", "connect", "register"} => (resources = {} /\ tables = Unset))
    /\ [][ /\ pc' # pc =>
                <<pc, pc'>> \in { <<"start", "connect">>, <<"start", "exited">>,
                                  <<"connect", "register">>, <<"connect", "exited">>,
                                  <<"register", "serving">>, <<"serving", "exited">> }
           /\ exit_code' = 1 => pc \in {"start", "connect", "exited"}
           /\ (last'.op \in Ops /\ last'.err # NotInitialized) => pc = "serving"
           /\ resources' # resources => pc = "register" ]_vars

\* C9 witness: startup failed before a connection was made and the process
\* ended with exit code 1, nothing registered.
C9_Witness ==
    /\ pc = "exited"
    /\ exit_code = 1
    /\ con = None
    /\ resources = {}

====
